---- MODULE Spec2Model ----
(***************************************************************************)
(* Model of riptable/rt_utils.py: the as-of aligner (alignmk, with its     *)
(* key normaliser normalize_keys) and the indexed gather (mbget and        *)
(* _mbget_2dims).  Arrays are sequences; row numbers and cursors are the   *)
(* 0-based numbers of the program, so row r of an array a is a[r + 1].     *)
(***************************************************************************)
EXTENDS Integers, Sequences, FiniteSets, TLC

\* ------------------------------------------------------------------ bounds
MaxLeft == 2      \* rows of the left side (time1 / key1)
MaxRight == 2     \* rows of the right side (time2 / key2)
MaxTime == 2      \* time stamps are 0..MaxTime
MaxCols == 2      \* key columns of a multi-column key
MaxSrc == 2       \* elements of a 1-D gather source
MaxSrcRows == 2   \* rows of a 2-D gather source
MaxSrcCols == 2   \* columns of a 2-D gather source
MaxIdx == 2       \* elements of a gather index
MaxKeyCols == 2   \* columns of a key given to normalize_keys alone
WideRows == 65    \* rows of the two-column source whose flat indexes pass 127
MaxStat == 3      \* elements of an array given to quantile or describe_helper

KeyVals == {1, 2}

\* ------------------------------------------------------------ array values
\* The invalid-index sentinel of a 32-bit index: the minimum int32.
INVALID_INT32 == (-2147483647) - 1

\* A slot of a freshly allocated output buffer that nothing has written yet.
Unwritten == -1

\* The default of a float array (NaN) and of a string array (the empty value),
\* as codes outside the values an array of the model holds.
NaN == -2
EmptyBytes == -3

Int8 == [kind |-> "i", itemsize |-> 1]
Int32 == [kind |-> "i", itemsize |-> 4]
Float64 == [kind |-> "f", itemsize |-> 8]
Bytes == [kind |-> "S", itemsize |-> 1]
Bytes3 == [kind |-> "S", itemsize |-> 3]
Object == [kind |-> "O", itemsize |-> 8]

\* NumpyCharTypes.AllInteger: the signed and unsigned integer dtypes.
IsInteger(dt) == dt.kind \in {"i", "u"}

At(a, r) == a[r + 1]

Min(a, b) == IF a <= b THEN a ELSE b

NonDecreasing(s) == \A p \in 1..(Len(s) - 1) : s[p] <= s[p + 1]

\* An argument that is a numpy array carries its data; one that is not
\* (a list, a scalar, None) has isarray = FALSE.
NdArray(s) == [isarray |-> TRUE, data |-> s]
NotAnArray == [isarray |-> FALSE, data |-> <<>>]

\* ------------------------------------------------------------ normalize_keys
\* The value that stands for "invalid" in an array of dtype dt.
Sentinel(dt) ==
    IF dt.kind = "f" THEN NaN
    ELSE IF dt.kind = "S" THEN EmptyBytes
    ELSE IF dt.itemsize = 1 THEN -128
    ELSE INVALID_INT32

\* np.asanyarray of a list of Python floats: one float64 array.
asanyarray(scalars) == [dtype |-> Float64, data |-> scalars]

\* check_key with a list of scalars taken for a list of columns.
check_key_no_scalar_test(key) ==
    IF key.kind = "dict" THEN [raised |-> "none", cols |-> key.cols]
    ELSE IF key.kind = "array" THEN [raised |-> "none", cols |-> <<key.cols[1]>>]
    ELSE IF key.cols = <<>> /\ key.scalars = <<>>
    THEN [raised |-> "IndexError", cols |-> <<>>]
    ELSE IF key.scalars # <<>>
    THEN [raised |-> "none",
          cols |-> [p \in 1..Len(key.scalars) |-> asanyarray(<<key.scalars[p]>>)]]
    ELSE [raised |-> "none", cols |-> key.cols]

\* check_key: a dict-like gives the list of its values, a single array becomes
\* a one-element list, a list whose first element is a scalar becomes one
\* array of all its elements, a list of arrays is kept as it is; key[0] of an
\* empty list raises.
check_key(key) ==
    IF key.kind = "dict" THEN [raised |-> "none", cols |-> key.cols]
    ELSE IF key.kind = "array" THEN [raised |-> "none", cols |-> <<key.cols[1]>>]
    ELSE IF key.cols = <<>> /\ key.scalars = <<>>
    THEN [raised |-> "IndexError", cols |-> <<>>]
    ELSE IF key.scalars # <<>>
    THEN [raised |-> "none", cols |-> <<asanyarray(key.scalars)>>]
    ELSE [raised |-> "none", cols |-> key.cols]

\* numpy's type number of a dtype.
dtype_num(dt) ==
    IF dt.kind = "S" THEN 18
    ELSE IF dt.kind = "f" THEN (IF dt.itemsize = 4 THEN 11 ELSE 12)
    ELSE IF dt.itemsize = 1 THEN 1
    ELSE IF dt.itemsize = 2 THEN 3
    ELSE IF dt.itemsize = 4 THEN 5
    ELSE 7

\* The dtype a type number stands for; a number does not carry the item size
\* of a string dtype.
dtype_from_num(num) ==
    IF num = 18 THEN [kind |-> "S", itemsize |-> 1]
    ELSE IF num = 11 THEN [kind |-> "f", itemsize |-> 4]
    ELSE IF num = 12 THEN [kind |-> "f", itemsize |-> 8]
    ELSE IF num = 1 THEN [kind |-> "i", itemsize |-> 1]
    ELSE IF num = 3 THEN [kind |-> "i", itemsize |-> 2]
    ELSE IF num = 5 THEN [kind |-> "i", itemsize |-> 4]
    ELSE [kind |-> "i", itemsize |-> 8]

\* The common dtype of two columns: of one kind, the wider item size; of an
\* integer and a float, float64.
get_common_dtype(arr1, arr2) ==
    IF arr1.dtype.kind = arr2.dtype.kind
    THEN [kind |-> arr1.dtype.kind,
          itemsize |-> IF arr1.dtype.itemsize >= arr2.dtype.itemsize
                       THEN arr1.dtype.itemsize ELSE arr2.dtype.itemsize]
    ELSE IF "S" \in {arr1.dtype.kind, arr2.dtype.kind}
    THEN [kind |-> "S",
          itemsize |-> IF arr1.dtype.itemsize >= arr2.dtype.itemsize
                       THEN arr1.dtype.itemsize ELSE arr2.dtype.itemsize]
    ELSE Float64

\* MathLedger._AS_FA_TYPE: a new array of the dtype the number stands for, an
\* invalid of the old dtype becoming the invalid of the new one.
AS_FA_TYPE(arr, num) ==
    LET dt == dtype_from_num(num)
    IN  [dtype |-> dt,
         data |-> [k \in 1..Len(arr.data) |->
                     IF arr.data[k] = Sentinel(arr.dtype) THEN Sentinel(dt)
                     ELSE arr.data[k]]]

\* ndarray.astype: a new array of the given dtype with the same numbers.
astype(arr, dt) == [dtype |-> dt, data |-> arr.data]

\* possibly_convert without the branch for equal type numbers.
possibly_convert_num_only(arr, common_dtype, safe) ==
    IF dtype_num(arr.dtype) # dtype_num(common_dtype)
    THEN (IF safe THEN AS_FA_TYPE(arr, dtype_num(common_dtype))
          ELSE astype(arr, common_dtype))
    ELSE arr

\* possibly_convert: when the type number differs, the sentinel-aware
\* conversion by type number, or astype when that raises (safe = FALSE); when
\* only the item size differs, astype; the array itself otherwise.
possibly_convert(arr, common_dtype, safe) ==
    IF dtype_num(arr.dtype) # dtype_num(common_dtype)
    THEN (IF safe THEN AS_FA_TYPE(arr, dtype_num(common_dtype))
          ELSE astype(arr, common_dtype))
    ELSE IF arr.dtype.itemsize # common_dtype.itemsize
    THEN astype(arr, common_dtype)
    ELSE arr

\* normalize_keys refusing keys of different column counts.
normalize_keys_strict(k1, k2, safe) ==
    LET c1 == check_key(k1)
        c2 == check_key(k2)
        n  == Min(Len(c1.cols), Len(c2.cols))
    IN  IF c1.raised # "none"
        THEN [raised |-> c1.raised, arrays1 |-> <<>>, arrays2 |-> <<>>]
        ELSE IF c2.raised # "none"
        THEN [raised |-> c2.raised, arrays1 |-> <<>>, arrays2 |-> <<>>]
        ELSE IF Len(c1.cols) # Len(c2.cols)
        THEN [raised |-> "ValueError", arrays1 |-> <<>>, arrays2 |-> <<>>]
        ELSE [raised |-> "none",
              arrays1 |-> [p \in 1..n |->
                  possibly_convert(c1.cols[p], get_common_dtype(c1.cols[p], c2.cols[p]), safe)],
              arrays2 |-> [p \in 1..n |->
                  possibly_convert(c2.cols[p], get_common_dtype(c1.cols[p], c2.cols[p]), safe)]]

\* normalize_keys: both keys go through check_key, the columns are paired by
\* zip and each pair is converted to its common dtype.
normalize_keys(k1, k2, safe) ==
    LET c1 == check_key(k1)
        c2 == check_key(k2)
        n  == Min(Len(c1.cols), Len(c2.cols))
    IN  IF c1.raised # "none"
        THEN [raised |-> c1.raised, arrays1 |-> <<>>, arrays2 |-> <<>>]
        ELSE IF c2.raised # "none"
        THEN [raised |-> c2.raised, arrays1 |-> <<>>, arrays2 |-> <<>>]
        ELSE [raised |-> "none",
              arrays1 |-> [p \in 1..n |->
                  possibly_convert(c1.cols[p], get_common_dtype(c1.cols[p], c2.cols[p]), safe)],
              arrays2 |-> [p \in 1..n |->
                  possibly_convert(c2.cols[p], get_common_dtype(c1.cols[p], c2.cols[p]), safe)]]

\* ------------------------------------------------------------------ alignmk
\* alignmk_raises with the 'nearest' branch falling through to the kernel.
alignmk_raises_nearest_runs(t1, t2, dir) ==
    IF ~t1.isarray THEN "TypeError"
    ELSE IF ~t2.isarray THEN "TypeError"
    ELSE IF dir = "nearest" THEN "none"
    ELSE IF dir = "backward" THEN "none"
    ELSE IF dir = "forward" THEN "none"
    ELSE "ValueError"

\* alignmk_raises with the direction examined before the time arguments.
alignmk_raises_direction_first(t1, t2, dir) ==
    IF dir = "nearest" THEN "NotImplementedError"
    ELSE IF dir \notin {"backward", "forward"} THEN "ValueError"
    ELSE IF ~t1.isarray THEN "TypeError"
    ELSE IF ~t2.isarray THEN "TypeError"
    ELSE "none"

\* The argument checks of alignmk, in the order the code makes them.
alignmk_raises(t1, t2, dir) ==
    IF ~t1.isarray THEN "TypeError"
    ELSE IF ~t2.isarray THEN "TypeError"
    ELSE IF dir = "nearest" THEN "NotImplementedError"
    ELSE IF dir = "backward" THEN "none"
    ELSE IF dir = "forward" THEN "none"
    ELSE "ValueError"

\* alignmk_kernel_args with the two directions' flags exchanged.
alignmk_kernel_args_flipped(nk, t1, t2, dir, exact) ==
    [key1 |-> nk.arrays1, key2 |-> nk.arrays2,
     time1 |-> t1.data, time2 |-> t2.data,
     isForward |-> (dir = "backward"), allowExact |-> exact]

\* alignmk_kernel_args with isForward left False on the 'forward' branch.
alignmk_kernel_args_never_forward(nk, t1, t2, dir, exact) ==
    [key1 |-> nk.arrays1, key2 |-> nk.arrays2,
     time1 |-> t1.data, time2 |-> t2.data,
     isForward |-> FALSE, allowExact |-> exact]

\* alignmk_kernel_args with allow_exact_matches not passed on (the kernel's
\* default, True, applies).
alignmk_kernel_args_exact_dropped(nk, t1, t2, dir, exact) ==
    [key1 |-> nk.arrays1, key2 |-> nk.arrays2,
     time1 |-> t1.data, time2 |-> t2.data,
     isForward |-> (dir = "forward"), allowExact |-> TRUE]

\* alignmk_kernel_args with the left and the right side exchanged.
alignmk_kernel_args_sides_swapped(nk, t1, t2, dir, exact) ==
    [key1 |-> nk.arrays2, key2 |-> nk.arrays1,
     time1 |-> t2.data, time2 |-> t1.data,
     isForward |-> (dir = "forward"), allowExact |-> exact]

\* alignmk_kernel_args with isForward set True on the 'backward' branch too.
alignmk_kernel_args_always_forward(nk, t1, t2, dir, exact) ==
    [key1 |-> nk.arrays1, key2 |-> nk.arrays2,
     time1 |-> t1.data, time2 |-> t2.data,
     isForward |-> TRUE, allowExact |-> exact]

\* alignmk_kernel_args with allow_exact_matches negated.
alignmk_kernel_args_exact_inverted(nk, t1, t2, dir, exact) ==
    [key1 |-> nk.arrays1, key2 |-> nk.arrays2,
     time1 |-> t1.data, time2 |-> t2.data,
     isForward |-> (dir = "forward"), allowExact |-> ~exact]

\* alignmk_kernel_args with exact matches never allowed going forward.
alignmk_kernel_args_forward_strict(nk, t1, t2, dir, exact) ==
    [key1 |-> nk.arrays1, key2 |-> nk.arrays2,
     time1 |-> t1.data, time2 |-> t2.data,
     isForward |-> (dir = "forward"), allowExact |-> (exact /\ dir # "forward")]

\* The arguments alignmk hands to rc.MultiKeyAlign32.
alignmk_kernel_args(nk, t1, t2, dir, exact) ==
    [key1 |-> nk.arrays1, key2 |-> nk.arrays2,
     time1 |-> t1.data, time2 |-> t2.data,
     isForward |-> (dir = "forward"), allowExact |-> exact]

NoKernel ==
    [key1 |-> <<>>, key2 |-> <<>>, time1 |-> <<>>, time2 |-> <<>>,
     isForward |-> FALSE, allowExact |-> FALSE]

\* ------------------------------------------------- rc.MultiKeyAlign32 (kernel)
\* The key of row r: the tuple of the row's values over all key columns.
RowKey(cols, r) == [c \in 1..Len(cols) |-> At(cols[c].data, r)]

EmptyMap == [k \in {} |-> 0]

\* The last row number seen for a key, or the sentinel.
Lookup(map, k) == IF k \in DOMAIN map THEN map[k] ELSE INVALID_INT32

\* Record row r as the last row seen for key k.
Insert(map, k, r) ==
    [x \in (DOMAIN map) \cup {k} |-> IF x = k THEN r ELSE map[x]]

\* The cursors' first positions: the first rows going backward (ascending
\* scan), the last rows going forward (descending scan).
FirstCursor(n, fwd) == IF fwd THEN n - 1 ELSE 0

\* A cursor that has left its array.
Exhausted(c, n, fwd) == IF fwd THEN c < 0 ELSE c >= n

Advance(c, fwd) == IF fwd THEN c - 1 ELSE c + 1

\* The left row at cursor ci is settled now: the right row at cj (and all
\* rows after it in scan order) cannot qualify for it.
LeftIsFirst(k, ci, cj) ==
    LET a == At(k.time1, ci)
        b == At(k.time2, cj)
    IN  IF k.isForward
        THEN a > b \/ (~k.allowExact /\ a = b)
        ELSE a < b \/ (~k.allowExact /\ a = b)

\* The kernel's scan from cursors ci, cj with map and output buffer buf to its
\* end: the buffer it returns.
RECURSIVE MergeRun(_, _, _, _, _)
MergeRun(k, ci, cj, map, buf) ==
    IF Exhausted(ci, Len(k.time1), k.isForward) THEN buf
    ELSE IF (IF Exhausted(cj, Len(k.time2), k.isForward) THEN TRUE
             ELSE LeftIsFirst(k, ci, cj))
    THEN MergeRun(k, Advance(ci, k.isForward), cj, map,
                  [buf EXCEPT ![ci + 1] = Lookup(map, RowKey(k.key1, ci))])
    ELSE MergeRun(k, ci, Advance(cj, k.isForward),
                  Insert(map, RowKey(k.key2, cj), cj), buf)

\* rc.MultiKeyAlign32 as a function of its arguments.
MultiKeyAlign32(k) ==
    MergeRun(k, FirstCursor(Len(k.time1), k.isForward),
             FirstCursor(Len(k.time2), k.isForward), EmptyMap,
             [p \in 1..Len(k.time1) |-> Unwritten])

\* What alignmk returns for supported directions and array times.
alignmk_returns(k1, k2, t1, t2, dir, exact, safe) ==
    MultiKeyAlign32(alignmk_kernel_args(normalize_keys(k1, k2, safe), t1, t2, dir, exact))

\* -------------------------------------------------------- integer arithmetic
\* Arithmetic in an array's own integer width: the result is reduced modulo
\* 2^(8 * itemsize) into the signed range.  The 32-bit case works on 16-bit
\* halves so that no intermediate value leaves the 32-bit range.
Wrap8(v) == ((v + 128) % 256) - 128

Lo16(x) == x % 65536
Hi16(x) == (x - Lo16(x)) \div 65536
Join16(h, l) ==
    LET u == h % 65536
    IN  (IF u >= 32768 THEN u - 65536 ELSE u) * 65536 + l

\* x * c in the width of dtype dt, for a small non-negative c.
mul_wrap(x, c, dt) ==
    IF dt.itemsize = 1 THEN Wrap8(x * c)
    ELSE LET p == Lo16(x) * c
         IN  Join16(Hi16(x) * c + (p \div 65536), p % 65536)

\* x + y in the width of dtype dt, for a small non-negative y.
add_wrap(x, y, dt) ==
    IF dt.itemsize = 1 THEN Wrap8(x + y)
    ELSE LET q == Lo16(x) + y
         IN  Join16(Hi16(x) + (q \div 65536), q % 65536)

\* -------------------------------------------------------------------- mbget
\* The number of elements of an array of the given shape.
RECURSIVE Size(_)
Size(shape) == IF shape = <<>> THEN 1 ELSE Head(shape) * Size(Tail(shape))

\* The default that stands for an out-of-bounds index, by the source's dtype.
DefaultValue(dt) ==
    IF dt.kind = "f" THEN NaN
    ELSE IF dt.kind = "S" THEN EmptyBytes
    ELSE INVALID_INT32

\* MathLedger._MBGET on a 1-D source: one output element per index element.
MBGET(values, index, dt) ==
    [k \in 1..Len(index) |->
        IF 0 <= index[k] /\ index[k] < Len(values)
        THEN At(values, index[k])
        ELSE DefaultValue(dt)]

Raise(e, calls) ==
    [raised |-> e, calls |-> calls,
     result |-> [returned |-> FALSE, dtype |-> Int32, shape |-> <<0>>,
                 data |-> <<>>, fortran |-> FALSE]]

Returns(dt, shape, data, fortran, calls) ==
    [raised |-> "none", calls |-> calls,
     result |-> [returned |-> TRUE, dtype |-> dt, shape |-> shape,
                 data |-> data, fortran |-> fortran]]

\* An array argument as the body of the function sees it.
AsArray(dt, shape, data, fortran) ==
    [container |-> "ndarray", dtype |-> dt, shape |-> shape, data |-> data,
     fortran |-> fortran]

\* np.repeat(idx, ncols) * ncols, in idx's dtype.
repeat_times(idx, ncols) ==
    [k \in 1..(Len(idx.data) * ncols) |->
        mul_wrap(idx.data[((k - 1) \div ncols) + 1], ncols, idx.dtype)]

\* tile(arange(ncols), nrows)
tile_arange(ncols, nrows) ==
    [k \in 1..(ncols * nrows) |-> (k - 1) % ncols]

RECURSIVE mbget(_, _)

\* The arrays _mbget_2dims holds after lines 498-499, by the name that refers
\* to them, when the row numbers are scaled in place (idx *= ncols) before
\* they are repeated: the caller's index then holds the scaled row numbers.
expanded_idx_objects_scaled_in_place(arr, idx) ==
    LET nrows == idx.shape[1]
        ncols == arr.shape[2]
        rep   == repeat_times(idx, ncols)
        til   == tile_arange(ncols, nrows)
        sum   == IF Len(til) # Len(rep) /\ Len(til) # 1 THEN rep
                 ELSE [k \in 1..Len(rep) |->
                         add_wrap(rep[k], IF Len(til) = 1 THEN til[1] ELSE til[k], idx.dtype)]
    IN  [idx |-> [k \in 1..Len(idx.data) |-> mul_wrap(idx.data[k], ncols, idx.dtype)],
         expanded_idx |-> sum]

\* The arrays _mbget_2dims holds after lines 498-499, by the name that refers
\* to them: np.repeat(idx, ncols) * ncols is a new array, and the addition
\* in place at line 499 writes into that array (not at all when the operands
\* do not broadcast).
expanded_idx_objects(arr, idx) ==
    LET nrows == idx.shape[1]
        ncols == arr.shape[2]
        rep   == repeat_times(idx, ncols)
        til   == tile_arange(ncols, nrows)
        sum   == IF Len(til) # Len(rep) /\ Len(til) # 1 THEN rep
                 ELSE [k \in 1..Len(rep) |->
                         add_wrap(rep[k], IF Len(til) = 1 THEN til[1] ELSE til[k], idx.dtype)]
    IN  [idx |-> idx.data, expanded_idx |-> sum]

\* mbget_2dims with the two extents of final_shape exchanged.
mbget_2dims_shape_swapped(arr, idx) ==
    LET nrows == idx.shape[1]
        ncols == arr.shape[2]
        rep   == repeat_times(idx, ncols)
        til   == tile_arange(ncols, nrows)
    IN  IF Len(til) # Len(rep) /\ Len(til) # 1
        THEN Raise("ValueError", 0)
        ELSE LET expanded_idx ==
                     [k \in 1..Len(rep) |->
                        add_wrap(rep[k], IF Len(til) = 1 THEN til[1] ELSE til[k], idx.dtype)]
                 r == mbget(AsArray(arr.dtype, <<Len(arr.data)>>, arr.data, FALSE),
                            AsArray(idx.dtype, <<Len(expanded_idx)>>, expanded_idx, FALSE))
             IN  IF r.raised # "none" THEN r
                 ELSE IF Len(r.result.data) # nrows * ncols
                 THEN Raise("ValueError", r.calls)
                 ELSE Returns(r.result.dtype, <<ncols, nrows>>, r.result.data,
                              arr.fortran, r.calls)

\* _mbget_2dims: the index is expanded to one flat index per column, the
\* flattened source goes through mbget, and the result is reshaped.
mbget_2dims(arr, idx) ==
    LET nrows == idx.shape[1]
        ncols == arr.shape[2]
        rep   == repeat_times(idx, ncols)
        til   == tile_arange(ncols, nrows)
    IN  IF Len(til) # Len(rep) /\ Len(til) # 1
        THEN Raise("ValueError", 0)
        ELSE LET expanded_idx ==
                     [k \in 1..Len(rep) |->
                        add_wrap(rep[k], IF Len(til) = 1 THEN til[1] ELSE til[k], idx.dtype)]
                 r == mbget(AsArray(arr.dtype, <<Len(arr.data)>>, arr.data, FALSE),
                            AsArray(idx.dtype, <<Len(expanded_idx)>>, expanded_idx, FALSE))
             IN  IF r.raised # "none" THEN r
                 ELSE IF Len(r.result.data) # nrows * ncols
                 THEN Raise("ValueError", r.calls)
                 ELSE Returns(r.result.dtype, <<nrows, ncols>>, r.result.data,
                              arr.fortran, r.calls)

\* numpy's own fancy indexing aValues[aIndex] on a 1-D source: a negative
\* index counts from the end.
FancyIndex(values, index, dt) ==
    [k \in 1..Len(index) |->
        IF 0 <= index[k] /\ index[k] < Len(values)
        THEN At(values, index[k])
        ELSE IF index[k] < 0 /\ index[k] + Len(values) >= 0
        THEN At(values, Len(values) + index[k])
        ELSE DefaultValue(dt)]

\* mbget with the 1-D gather done by fancy indexing.
mbget_fancy_index(aValues, aIndex) ==
    IF aValues.container = "other" \/ aIndex.container = "other"
    THEN Raise("TypeError", 0)
    ELSE IF aValues.dtype.kind = "O"
    THEN Raise("TypeError", 0)
    ELSE IF ~IsInteger(aIndex.dtype)
    THEN Raise("TypeError", 0)
    ELSE IF Len(aValues.shape) = 1
    THEN Returns(aValues.dtype, aIndex.shape,
                 FancyIndex(aValues.data, aIndex.data, aValues.dtype), FALSE, 1)
    ELSE IF Len(aValues.shape) = 2
    THEN mbget_2dims(aValues, aIndex)
    ELSE Raise("ValueError", 0)

\* mbget with every source of two or more dimensions sent to _mbget_2dims.
mbget_ndim_unchecked(aValues, aIndex) ==
    IF aValues.container = "other" \/ aIndex.container = "other"
    THEN Raise("TypeError", 0)
    ELSE IF aValues.dtype.kind = "O"
    THEN Raise("TypeError", 0)
    ELSE IF ~IsInteger(aIndex.dtype)
    THEN Raise("TypeError", 0)
    ELSE IF Len(aValues.shape) = 1
    THEN Returns(aValues.dtype, aIndex.shape,
                 MBGET(aValues.data, aIndex.data, aValues.dtype), FALSE, 1)
    ELSE mbget_2dims(aValues, aIndex)

\* mbget: a list or tuple argument is made an array; then the argument
\* checks, then the gather by the source's dimensions.
mbget(aValues, aIndex) ==
    IF aValues.container = "other" \/ aIndex.container = "other"
    THEN Raise("TypeError", 0)
    ELSE IF aValues.dtype.kind = "O"
    THEN Raise("TypeError", 0)
    ELSE IF ~IsInteger(aIndex.dtype)
    THEN Raise("TypeError", 0)
    ELSE IF Len(aValues.shape) = 1
    THEN Returns(aValues.dtype, aIndex.shape,
                 MBGET(aValues.data, aIndex.data, aValues.dtype), FALSE, 1)
    ELSE IF Len(aValues.shape) = 2
    THEN mbget_2dims(aValues, aIndex)
    ELSE Raise("ValueError", 0)

\* The caller's index array after mbget: a list argument is replaced by a new
\* array at line 596 and never written; an array argument is the idx of
\* _mbget_2dims when the checks pass and the source has two dimensions.
index_after_mbget(values, index) ==
    IF /\ values.container # "other"
       /\ index.container = "ndarray"
       /\ values.dtype.kind # "O"
       /\ IsInteger(index.dtype)
       /\ Len(values.shape) = 2
    THEN [index EXCEPT !.data = expanded_idx_objects(values, index).idx]
    ELSE index

\* The caller's key after normalize_keys: check_key rebinds its local name and
\* the converted columns are appended to the new lists arrays1 and arrays2;
\* nothing is stored into the caller's container or its columns.
key_after_normalize(key, converted) == key

\* ------------------------------------------------- quantile, describe_helper
\* Numbers that are not whole are held as fractions <<numerator, denominator>>;
\* the float NaN of a result is the fraction 0/0.
Frac(n, d) == <<n, d>>
NaNFrac == Frac(0, 0)

\* The default q of quantile and describe_helper, in percent.
DefaultQ == <<10, 25, 50, 75, 90>>

\* FastArray.isnotnan: which elements are not the invalid value of the dtype.
isnotnan(arr) == [k \in 1..Len(arr.data) |-> arr.data[k] # Sentinel(arr.dtype)]

\* ivalid.sum()
CountTrue(flags) == Cardinality({k \in 1..Len(flags) : flags[k]})

\* The order of ndarray.sort: by value, a float NaN after every number (the
\* integer sentinel is the least integer and so comes first).
SortsBefore(x, y, dt) ==
    IF dt.kind = "f" /\ x = NaN THEN FALSE
    ELSE IF dt.kind = "f" /\ y = NaN THEN TRUE
    ELSE x < y

\* arr.copy() sorted in place: element k is the value with fewer than k
\* elements before it and at least k elements not after it.
sort(arr) ==
    LET d == arr.data
        Before(v) == Cardinality({m \in 1..Len(d) : SortsBefore(d[m], v, arr.dtype)})
        UpTo(v)   == Cardinality({m \in 1..Len(d) : ~SortsBefore(v, d[m], arr.dtype)})
    IN  [k \in 1..Len(d) |->
            CHOOSE v \in {d[m] : m \in 1..Len(d)} : Before(v) < k /\ k <= UpTo(v)]

\* The Python slice s[lo:hi] of a sequence: a negative bound counts from the
\* end, and both bounds are clamped to the sequence.
Slice(s, lo, hi) ==
    LET n     == Len(s)
        Clamp(b) == IF b < 0 THEN (IF b + n < 0 THEN 0 ELSE b + n)
                    ELSE IF b > n THEN n ELSE b
    IN  SubSeq(s, Clamp(lo) + 1, Clamp(hi))

\* The subset quantile and describe_helper take their statistics from
\* (lines 706-714 and 768-776), for an array with at least one valid element.
valid_subset(arr) ==
    LET count    == Len(arr.data)
        cvalid   == CountTrue(isnotnan(arr))
        arr_sort == sort(arr)
        notvalid == count - cvalid
    IN  IF cvalid = count THEN arr_sort
        ELSE IF IsInteger(arr.dtype) THEN Slice(arr_sort, notvalid, -1)
        ELSE Slice(arr_sort, 0, cvalid)

\* interpolate(data, percent * cvalidm1 / 100): the value between the two
\* elements around the float index, and the whole part of the index.
interpolate(data, percent, cvalidm1) ==
    LET hundredths == percent * cvalidm1
        whole      == hundredths \div 100
        frac       == hundredths % 100
    IN  IF hundredths < 0
        THEN [raised |-> "ValueError", value |-> NaNFrac, whole |-> whole]
        ELSE IF hundredths > 100 * (Len(data) - 1)
        THEN [raised |-> "none", value |-> NaNFrac, whole |-> whole]
        ELSE IF frac = 0
        THEN [raised |-> "none", value |-> Frac(At(data, whole), 1), whole |-> whole]
        ELSE [raised |-> "none",
              value |-> Frac((100 - frac) * At(data, whole) + frac * At(data, whole + 1), 100),
              whole |-> whole]

RECURSIVE Sum(_)
Sum(s) == IF s = <<>> THEN 0 ELSE Head(s) + Sum(Tail(s))

\* ndarray.mean: NaN for an empty array.
mean(s) == Frac(Sum(s), Len(s))

\* ndarray.std, held as its square, the population variance
\* (n * sum(x^2) - sum(x)^2) / n^2: NaN for an empty array.
std_squared(s) ==
    Frac(Len(s) * Sum([k \in 1..Len(s) |-> s[k] * s[k]]) - Sum(s) * Sum(s),
         Len(s) * Len(s))

\* quantile(arr) with the default q: what it raises and the list it returns.
quantile(arr) ==
    LET cvalid   == CountTrue(isnotnan(arr))
        valid    == valid_subset(arr)
        cvalidm1 == cvalid - 1
    IN  IF cvalid = 0
        THEN [raised |-> "none", valid |-> <<>>,
              retvals |-> [k \in 1..Len(DefaultQ) |-> NaNFrac]]
        ELSE [raised |-> "none", valid |-> valid,
              retvals |-> [k \in 1..Len(DefaultQ) |->
                              interpolate(valid, DefaultQ[k], cvalidm1).value]]

\* describe_helper(arr) with the default q: what it raises and the list it
\* returns, in the order Count Valid Nans Mean Std Min P10 .. P90 Max MeanM.
describe_helper(arr) ==
    LET count    == Len(arr.data)
        cvalid   == CountTrue(isnotnan(arr))
        valid    == valid_subset(arr)
        notvalid == count - cvalid
        cvalidm1 == cvalid - 1
        d1break  == interpolate(valid, 10, cvalidm1).whole
        d9whole  == interpolate(valid, 90, cvalidm1).whole
        d9frac   == IF (90 * cvalidm1) % 100 # 0 THEN d9whole + 1 ELSE d9whole
        d9break  == IF d9frac + 1 > cvalid THEN cvalid ELSE d9frac + 1
        validm   == Slice(valid, d1break, d9break)
        m0       == IF Len(validm) > 0 THEN mean(validm) ELSE NaNFrac
        quantiles == [k \in 1..Len(DefaultQ) |->
                         interpolate(valid, DefaultQ[k], cvalidm1).value]
    IN  IF cvalid = 0
        THEN [raised |-> "none", valid |-> <<>>,
              retvals |-> <<Frac(count, 1), Frac(cvalid, 1)>>
                            \o [k \in 1..(6 + Len(DefaultQ)) |-> NaNFrac]]
        ELSE IF Len(valid) = 0
        THEN [raised |-> "IndexError", valid |-> valid, retvals |-> <<>>]
        ELSE [raised |-> "none", valid |-> valid,
              retvals |-> <<Frac(count, 1), Frac(cvalid, 1), Frac(notvalid, 1),
                            mean(valid), std_squared(valid), Frac(valid[1], 1)>>
                            \o quantiles
                            \o <<Frac(valid[Len(valid)], 1), m0>>]

VARIABLES
    op,                    \* the function called
    pc,                    \* "call", "merge", "done"
    key1, key2,            \* alignmk's key arguments
    time1, time2,          \* alignmk's time arguments
    direction,             \* alignmk's direction argument
    allow_exact_matches,   \* alignmk's allow_exact_matches argument
    aValues, aIndex,       \* mbget's arguments
    safeCast,              \* whether the sentinel-aware cast serves the call
    arrays,                \* what normalize_keys returned
    arr,                   \* quantile's and describe_helper's argument
    valid,                 \* the subset they take their statistics from
    retvals,               \* the list they return
    kernel,                \* the arguments the merge kernel was called with
    i, j,                  \* the merge kernel's cursors into time1 and time2
    lastSeen,              \* the merge kernel's key -> last row number map
    out,                   \* the merge kernel's output buffer
    steps,                 \* the steps the merge kernel's scan has made
    result,                \* the value returned to the caller
    raised,                \* the exception raised to the caller, or "none"
    kernelCalls            \* how many times a native kernel was invoked

vars == <<op, pc, key1, key2, time1, time2, direction, allow_exact_matches,
          aValues, aIndex, safeCast, arrays, kernel, i, j, lastSeen, out,
          steps, result, raised, kernelCalls, arr, valid, retvals>>

inputs == <<op, key1, key2, time1, time2, direction, allow_exact_matches,
            aValues, aIndex, safeCast>>

\* ------------------------------------------------------------------- inputs
TimeArrays(n) == {s \in [1..n -> 0..MaxTime] : NonDecreasing(s)}

Columns(n) == {[dtype |-> Int32, data |-> d] : d \in [1..n -> KeyVals]}

\* A key of n rows and m columns: one array when m = 1, a list of m arrays
\* otherwise.
Keys(n, m) ==
    IF m = 1
    THEN {[kind |-> "array", cols |-> <<c>>, scalars |-> <<>>] : c \in Columns(n)}
    ELSE {[kind |-> "list", cols |-> cs, scalars |-> <<>>] : cs \in [1..m -> Columns(n)]}

Directions == {"backward", "forward", "nearest", "sideways"}

NoReturn ==
    [returned |-> FALSE, dtype |-> Int32, shape |-> <<0>>, data |-> <<>>,
     fortran |-> FALSE]

NoKey == [kind |-> "array", cols |-> <<[dtype |-> Int32, data |-> <<>>]>>,
          scalars |-> <<>>]

NoArrays == [arrays1 |-> <<>>, arrays2 |-> <<>>]

NoArg == [container |-> "other", dtype |-> Object, shape |-> <<>>,
          data |-> <<>>, fortran |-> FALSE]

InitAlignmk ==
    /\ op = "alignmk"
    /\ \E m \in 1..MaxCols, n1 \in 0..MaxLeft, n2 \in 0..MaxRight :
         /\ key1 \in Keys(n1, m)
         /\ key2 \in Keys(n2, m)
         /\ time1 \in {NdArray(s) : s \in TimeArrays(n1)} \cup {NotAnArray}
         /\ time2 \in {NdArray(s) : s \in TimeArrays(n2)} \cup {NotAnArray}
    /\ direction \in Directions
    /\ allow_exact_matches \in BOOLEAN
    /\ safeCast = TRUE
    /\ aValues = NoArg
    /\ aIndex = NoArg

SrcVals == {10, 20}

SrcShapes ==
    {<<n>> : n \in 0..MaxSrc}
        \cup {<<n, c>> : n \in 0..MaxSrcRows, c \in 1..MaxSrcCols}

\* A source of WideRows rows and two columns whose element k (from 1, in row
\* order) is k: its last rows have flat indexes above 127.
WideSource == AsArray(Int32, <<WideRows, 2>>, [k \in 1..(2 * WideRows) |-> k], FALSE)

\* The sources of a gather: numeric and string arrays of one or two
\* dimensions with every content, in C or Fortran layout; an array of three
\* dimensions; arrays of objects; a list; and something that is no array.
Sources ==
    {AsArray(dt, sh, d, f) :
        dt \in {Int32, Float64, Bytes},
        sh \in SrcShapes,
        d \in UNION {[1..Size(s) -> SrcVals] : s \in SrcShapes},
        f \in BOOLEAN}
    \cup {AsArray(dt, <<1, 1, 1>>, <<10>>, FALSE) : dt \in {Int32, Object}}
    \cup {AsArray(Object, <<1>>, <<10>>, FALSE),
          AsArray(Object, <<1, 1>>, <<10>>, FALSE)}
    \cup {[container |-> "list", dtype |-> Int32, shape |-> <<2>>,
           data |-> <<10, 20>>, fortran |-> FALSE]}
    \cup {WideSource}
    \cup {NoArg}

WellFormed(a) ==
    /\ Len(a.data) = Size(a.shape)
    /\ a.fortran => Len(a.shape) = 2

\* The values of an index: rows in and out of the range of every small
\* source, the last row of the wide source, and the extreme values of the
\* index's width.
IdxVals(dt) ==
    (-(MaxSrc + 1))..(MaxSrc + 1)
        \cup {WideRows - 1}
        \cup (IF dt = Int8 THEN {-128, -127, 127} ELSE {INVALID_INT32})

IdxShapes ==
    {<<n>> : n \in 0..MaxIdx}
        \cup {<<1, n>> : n \in 1..MaxIdx}
        \cup {<<n, 1>> : n \in 2..MaxIdx}

Indexes ==
    UNION {{AsArray(dt, sh, d, FALSE) :
                sh \in IdxShapes,
                d \in UNION {[1..Size(s) -> IdxVals(dt)] : s \in IdxShapes}} :
           dt \in {Int8, Int32}}
    \cup {AsArray(Float64, <<1>>, <<1>>, FALSE)}
    \cup {[container |-> "list", dtype |-> Int32, shape |-> <<2>>,
           data |-> <<1, -1>>, fortran |-> FALSE]}
    \cup {NoArg}

InitMbget ==
    /\ op = "mbget"
    /\ aValues \in {a \in Sources : WellFormed(a)}
    /\ aIndex \in {a \in Indexes : WellFormed(a)}
    /\ key1 = NoKey
    /\ key2 = NoKey
    /\ time1 = NotAnArray
    /\ time2 = NotAnArray
    /\ direction = "backward"
    /\ allow_exact_matches = TRUE
    /\ safeCast = TRUE

\* The columns normalize_keys is given alone: one row, of integer, float and
\* string dtypes of several widths, valid or invalid.
KeyColumns ==
    {[dtype |-> dt, data |-> <<1>>] : dt \in {Int8, Int32, Float64, Bytes, Bytes3}}
        \cup {[dtype |-> Int8, data |-> <<Sentinel(Int8)>>]}

\* The keys normalize_keys is given alone: an array, a list of arrays, a
\* dict-like of arrays, a list of scalars, an empty list or dict-like.
KeyArgs ==
    {[kind |-> "array", cols |-> <<c>>, scalars |-> <<>>] : c \in KeyColumns}
    \cup {[kind |-> kd, cols |-> cs, scalars |-> <<>>] :
             kd \in {"list", "dict"},
             cs \in UNION {[1..m -> KeyColumns] : m \in 0..MaxKeyCols}}
    \cup {[kind |-> "list", cols |-> <<>>, scalars |-> sc] : sc \in {<<1>>, <<1, 2>>}}

\* The columns normalize_keys pairs are both numeric or both strings.
Pairable(k1, k2) ==
    LET c1 == check_key(k1).cols
        c2 == check_key(k2).cols
    IN  \A p \in 1..Min(Len(c1), Len(c2)) :
            (c1[p].dtype.kind = "S") <=> (c2[p].dtype.kind = "S")

InitNormalizeKeys ==
    /\ op = "normalize_keys"
    /\ key1 \in KeyArgs
    /\ key2 \in KeyArgs
    /\ Pairable(key1, key2)
    /\ safeCast \in BOOLEAN
    /\ time1 = NotAnArray
    /\ time2 = NotAnArray
    /\ direction = "backward"
    /\ allow_exact_matches = TRUE
    /\ aValues = NoArg
    /\ aIndex = NoArg

\* The values of an array given to quantile or describe_helper.
StatVals == {1, 2, 3}

\* No array: the call is not one of quantile or describe_helper.
NoStatArray == [dtype |-> Int32, data |-> <<>>]

\* The arrays quantile and describe_helper are given: integer and float
\* arrays of every length up to MaxStat, any element valid or invalid.
StatArrays ==
    UNION {{[dtype |-> dt, data |-> d] :
                d \in UNION {[1..n -> StatVals \cup {Sentinel(dt)}] : n \in 0..MaxStat}} :
           dt \in {Int32, Float64}}

InitStatistics ==
    /\ op \in {"quantile", "describe_helper"}
    /\ arr \in StatArrays
    /\ key1 = NoKey
    /\ key2 = NoKey
    /\ time1 = NotAnArray
    /\ time2 = NotAnArray
    /\ direction = "backward"
    /\ allow_exact_matches = TRUE
    /\ safeCast = TRUE
    /\ aValues = NoArg
    /\ aIndex = NoArg

Init ==
    /\ \/ (InitAlignmk \/ InitMbget \/ InitNormalizeKeys) /\ arr = NoStatArray
       \/ InitStatistics
    /\ valid = <<>>
    /\ retvals = <<>>
    /\ arrays = NoArrays
    /\ pc = "call"
    /\ kernel = NoKernel
    /\ i = 0
    /\ j = 0
    /\ lastSeen = EmptyMap
    /\ out = <<>>
    /\ steps = 0
    /\ result = NoReturn
    /\ raised = "none"
    /\ kernelCalls = 0

\* ------------------------------------------------------------------ actions
\* alignmk up to its call of rc.MultiKeyAlign32: the keys are normalised, the
\* arguments checked, and the kernel entered with its cursors at their first
\* positions and a fresh map and output buffer.
CallAlignmk ==
    /\ op = "alignmk"
    /\ pc = "call"
    /\ LET nk  == normalize_keys(key1, key2, safeCast)
           err == IF nk.raised # "none" THEN nk.raised
                  ELSE alignmk_raises(time1, time2, direction)
           k   == alignmk_kernel_args(nk, time1, time2, direction, allow_exact_matches)
       IN  IF err # "none"
           THEN /\ raised' = err
                /\ pc' = "done"
                /\ UNCHANGED <<kernel, i, j, lastSeen, out, steps, kernelCalls>>
           ELSE /\ kernel' = k
                /\ i' = FirstCursor(Len(k.time1), k.isForward)
                /\ j' = FirstCursor(Len(k.time2), k.isForward)
                /\ lastSeen' = EmptyMap
                /\ out' = [p \in 1..Len(k.time1) |-> Unwritten]
                /\ steps' = 0
                /\ kernelCalls' = kernelCalls + 1
                /\ pc' = "merge"
                /\ UNCHANGED raised
    /\ key1' = key_after_normalize(key1, normalize_keys(key1, key2, safeCast).arrays1)
    /\ key2' = key_after_normalize(key2, normalize_keys(key1, key2, safeCast).arrays2)
    /\ UNCHANGED <<op, time1, time2, direction, allow_exact_matches, aValues,
                   aIndex, safeCast, result, arrays>>
    /\ UNCHANGED <<arr, valid, retvals>>

\* The kernel settles the left row at cursor i from the map and moves i on:
\* when the right side is exhausted or the right row at j comes after it.
MergeLookup ==
    /\ pc = "merge"
    /\ ~Exhausted(i, Len(kernel.time1), kernel.isForward)
    /\ IF Exhausted(j, Len(kernel.time2), kernel.isForward)
       THEN TRUE
       ELSE LeftIsFirst(kernel, i, j)
    /\ out' = [out EXCEPT ![i + 1] = Lookup(lastSeen, RowKey(kernel.key1, i))]
    /\ i' = Advance(i, kernel.isForward)
    /\ steps' = steps + 1
    /\ UNCHANGED <<inputs, arrays, pc, kernel, j, lastSeen, result, raised, kernelCalls>>
    /\ UNCHANGED <<arr, valid, retvals>>

\* The kernel records the right row at cursor j as the last row seen for its
\* key and moves j on.
MergeInsert ==
    /\ pc = "merge"
    /\ ~Exhausted(i, Len(kernel.time1), kernel.isForward)
    /\ ~Exhausted(j, Len(kernel.time2), kernel.isForward)
    /\ ~LeftIsFirst(kernel, i, j)
    /\ lastSeen' = Insert(lastSeen, RowKey(kernel.key2, j), j)
    /\ j' = Advance(j, kernel.isForward)
    /\ steps' = steps + 1
    /\ UNCHANGED <<inputs, arrays, pc, kernel, i, out, result, raised, kernelCalls>>
    /\ UNCHANGED <<arr, valid, retvals>>

\* Every left row is settled: the kernel returns its buffer and alignmk
\* returns it to the caller.
MergeReturn ==
    /\ pc = "merge"
    /\ Exhausted(i, Len(kernel.time1), kernel.isForward)
    /\ result' = [returned |-> TRUE, dtype |-> Int32, shape |-> <<Len(out)>>,
                  data |-> out, fortran |-> FALSE]
    /\ pc' = "done"
    /\ UNCHANGED <<inputs, arrays, kernel, i, j, lastSeen, out, steps, raised,
                   kernelCalls>>
    /\ UNCHANGED <<arr, valid, retvals>>

\* mbget, from its argument checks to its return or its exception.
CallMbget ==
    /\ op = "mbget"
    /\ pc = "call"
    /\ LET r == mbget(aValues, aIndex)
       IN  /\ result' = r.result
           /\ raised' = r.raised
           /\ kernelCalls' = kernelCalls + r.calls
    /\ pc' = "done"
    /\ aIndex' = index_after_mbget(aValues, aIndex)
    /\ UNCHANGED <<op, key1, key2, time1, time2, direction, allow_exact_matches,
                   aValues, safeCast, arrays, kernel, i, j, lastSeen, out, steps>>
    /\ UNCHANGED <<arr, valid, retvals>>

\* normalize_keys called on its own, from check_key to its return or its
\* exception.
CallNormalizeKeys ==
    /\ op = "normalize_keys"
    /\ pc = "call"
    /\ LET nk == normalize_keys(key1, key2, safeCast)
       IN  /\ arrays' = [arrays1 |-> nk.arrays1, arrays2 |-> nk.arrays2]
           /\ raised' = nk.raised
    /\ pc' = "done"
    /\ key1' = key_after_normalize(key1, normalize_keys(key1, key2, safeCast).arrays1)
    /\ key2' = key_after_normalize(key2, normalize_keys(key1, key2, safeCast).arrays2)
    /\ UNCHANGED <<op, time1, time2, direction, allow_exact_matches, aValues,
                   aIndex, safeCast, kernel, i, j, lastSeen, out, steps, result,
                   kernelCalls>>
    /\ UNCHANGED <<arr, valid, retvals>>

\* quantile, from its count of the valid elements to its return.  The
\* argument is copied before it is sorted and is left as it was.
CallQuantile ==
    /\ op = "quantile"
    /\ pc = "call"
    /\ LET r == quantile(arr)
       IN  /\ raised' = r.raised
           /\ valid' = r.valid
           /\ retvals' = r.retvals
    /\ pc' = "done"
    /\ UNCHANGED <<inputs, arr, arrays, kernel, i, j, lastSeen, out, steps, result,
                   kernelCalls>>

\* describe_helper, from its count of the valid elements to its return or
\* its exception.  The argument is copied before it is sorted.
CallDescribeHelper ==
    /\ op = "describe_helper"
    /\ pc = "call"
    /\ LET r == describe_helper(arr)
       IN  /\ raised' = r.raised
           /\ valid' = r.valid
           /\ retvals' = r.retvals
    /\ pc' = "done"
    /\ UNCHANGED <<inputs, arr, arrays, kernel, i, j, lastSeen, out, steps, result,
                   kernelCalls>>

Next ==
    \/ CallQuantile
    \/ CallDescribeHelper
    \/ CallNormalizeKeys
    \/ CallAlignmk
    \/ MergeLookup
    \/ MergeInsert
    \/ MergeReturn
    \/ CallMbget

Spec == Init /\ [][Next]_vars

\* =================================================================== claims
\* The caller's view of an alignmk call that has returned.
AlignReturned == op = "alignmk" /\ pc = "done" /\ result.returned

LeftRows == 0..(Len(time1.data) - 1)
RightRows == 0..(Len(time2.data) - 1)

\* The key of row r of a key argument, over all its columns.
KeyOf(key, r) == [c \in 1..Len(key.cols) |-> At(key.cols[c].data, r)]

SameKey(r, q) == KeyOf(key1, r) = KeyOf(key2, q)

\* Right row q's time qualifies for left row r under the direction and the
\* exactness policy.
TimeQualifies(r, q) ==
    LET a == At(time1.data, r)
        b == At(time2.data, q)
    IN  IF direction = "backward"
        THEN (IF allow_exact_matches THEN b <= a ELSE b < a)
        ELSE (IF allow_exact_matches THEN b >= a ELSE b > a)

Qualifies(r, q) == SameKey(r, q) /\ TimeQualifies(r, q)

\* The entry returned for left row r (Unwritten when the returned array has
\* no such entry).
Entry(r) == IF r < Len(result.data) THEN At(result.data, r) ELSE Unwritten

\* C1: backward alignment.  For every left row whose entry is not the
\* sentinel, the entry is a right row with the same key on all columns and a
\* time not after the left row's (before it when exact matches are not
\* allowed), and no right row of that key has a time strictly between the two.
C1_BackwardMatch ==
    (AlignReturned /\ direction = "backward") =>
        \A r \in LeftRows :
            Entry(r) # INVALID_INT32 =>
                /\ Entry(r) \in RightRows
                /\ Qualifies(r, Entry(r))
                /\ \A q \in RightRows :
                      ~(/\ SameKey(r, q)
                        /\ At(time2.data, Entry(r)) < At(time2.data, q)
                        /\ At(time2.data, q) < At(time1.data, r))

\* A backward match that had to pass over an earlier right row of its key.
C1_Witness ==
    /\ AlignReturned
    /\ direction = "backward"
    /\ \E r \in LeftRows, q \in RightRows :
          /\ Entry(r) \in RightRows
          /\ SameKey(r, q)
          /\ At(time2.data, q) < At(time2.data, Entry(r))

\* C2: forward alignment.  For every left row whose entry is not the
\* sentinel, the entry is a right row with the same key and a time not before
\* the left row's (after it when exact matches are not allowed), and no
\* qualifying right row of that key has a smaller time.
C2_ForwardMatch ==
    (AlignReturned /\ direction = "forward") =>
        \A r \in LeftRows :
            Entry(r) # INVALID_INT32 =>
                /\ Entry(r) \in RightRows
                /\ Qualifies(r, Entry(r))
                /\ \A q \in RightRows :
                      Qualifies(r, q) =>
                          At(time2.data, Entry(r)) <= At(time2.data, q)

\* A forward match that had to pass over a later right row of its key.
C2_Witness ==
    /\ AlignReturned
    /\ direction = "forward"
    /\ \E r \in LeftRows, q \in RightRows :
          /\ Entry(r) \in RightRows
          /\ SameKey(r, q)
          /\ At(time2.data, q) > At(time2.data, Entry(r))

\* C3: in both directions and under both exactness policies, an entry is the
\* sentinel exactly when no right row qualifies for the left row; every other
\* entry is a right row number, and the sentinel is no row number.
C3_SentinelIffNoMatch ==
    AlignReturned =>
        /\ INVALID_INT32 \notin RightRows
        /\ \A r \in LeftRows :
              /\ (Entry(r) = INVALID_INT32) <=> ~(\E q \in RightRows : Qualifies(r, q))
              /\ Entry(r) # INVALID_INT32 => Entry(r) \in RightRows

\* A left row left unmatched only because exact matches are not allowed,
\* next to a left row that is matched.
C3_Witness ==
    /\ AlignReturned
    /\ ~allow_exact_matches
    /\ \E r \in LeftRows, q \in RightRows :
          /\ Entry(r) = INVALID_INT32
          /\ SameKey(r, q)
          /\ At(time2.data, q) = At(time1.data, r)
    /\ \E r \in LeftRows : Entry(r) \in RightRows

\* C4: the array alignmk returns has exactly len(time1) entries.
C4_ResultLength ==
    AlignReturned =>
        /\ Len(result.data) = Len(time1.data)
        /\ result.shape = <<Len(time1.data)>>

\* A return with more left rows than right rows.
C4_Witness ==
    /\ AlignReturned
    /\ Len(time2.data) = 0
    /\ Len(result.data) > 0

\* C5: with direction 'nearest' alignmk raises and returns nothing.
C5_NearestRaises ==
    (op = "alignmk" /\ direction = "nearest") =>
        /\ ~result.returned
        /\ pc # "merge"
        /\ pc = "done" => raised # "none"

\* A call with array times and direction 'nearest' that has raised.
C5_Witness ==
    /\ op = "alignmk"
    /\ direction = "nearest"
    /\ time1.isarray
    /\ time2.isarray
    /\ pc = "done"
    /\ raised = "NotImplementedError"

\* The failure the argument checks of alignmk call for, the listed conditions
\* taken in the order they are listed.
AlignFailure ==
    IF ~time1.isarray \/ ~time2.isarray THEN "TypeError"
    ELSE IF direction = "nearest" THEN "NotImplementedError"
    ELSE IF direction \notin {"backward", "forward"} THEN "ValueError"
    ELSE "none"

\* C6: alignmk fails with a type error when time1 or time2 is no array, else
\* with a not-implemented error for 'nearest', else with a value error for a
\* direction that is neither 'backward' nor 'forward'; in each case nothing is
\* returned and the merge kernel is not invoked.
C6_AlignFailures ==
    (op = "alignmk" /\ AlignFailure # "none") =>
        /\ ~result.returned
        /\ kernelCalls = 0
        /\ pc # "merge"
        /\ pc = "done" => raised = AlignFailure

\* A type error raised for a time argument although the direction is not a
\* supported one either.
C6_Witness ==
    /\ op = "alignmk"
    /\ pc = "done"
    /\ ~time2.isarray
    /\ time1.isarray
    /\ direction = "sideways"
    /\ raised = "TypeError"

\* The caller's view of an mbget call that has returned.
GatherReturned == op = "mbget" /\ pc = "done" /\ result.returned

\* Index value v is a position of a source of n elements (or rows).
InBounds(v, n) == 0 <= v /\ v < n

\* C7: gather bounds.  For a 1-D source S and an integer index I, every
\* output element k is S[I[k]] when 0 <= I[k] < len(S) and the default of the
\* source's dtype otherwise; a negative index always yields the default.
C7_GatherBounds ==
    (GatherReturned /\ Len(aValues.shape) = 1) =>
        /\ Len(result.data) = Len(aIndex.data)
        /\ \A k \in 1..Len(aIndex.data) :
              result.data[k] =
                  IF InBounds(aIndex.data[k], Len(aValues.data))
                  THEN At(aValues.data, aIndex.data[k])
                  ELSE DefaultValue(aValues.dtype)

\* A gather from a 1-D integer source with one index in bounds and one index
\* -len(S), which got the sentinel.
C7_Witness ==
    /\ GatherReturned
    /\ aValues.shape = <<MaxSrc>>
    /\ aValues.dtype = Int32
    /\ \E k, m \in 1..Len(aIndex.data) :
          /\ aIndex.data[k] = -Len(aValues.data)
          /\ result.data[k] = INVALID_INT32
          /\ InBounds(aIndex.data[m], Len(aValues.data))
          /\ result.data[m] = At(aValues.data, aIndex.data[m])

\* C8: gather shape.  For a 1-D source the result has the index's shape; for a
\* 2-D source of shape (n, c) it has shape (len(I), c); whether or not any
\* index is in bounds, and for an empty index.
C8_GatherShape ==
    GatherReturned =>
        /\ Len(result.data) = Size(result.shape)
        /\ Len(aValues.shape) = 1 => result.shape = aIndex.shape
        /\ Len(aValues.shape) = 2 =>
              result.shape = <<aIndex.shape[1], aValues.shape[2]>>

\* A gather from a 2-D source of more than one column by an index that has
\* another length than the source has rows and no element in bounds.
C8_Witness ==
    /\ GatherReturned
    /\ Len(aValues.shape) = 2
    /\ aValues.shape[2] > 1
    /\ aIndex.shape = <<1>>
    /\ aValues.shape[1] # 1
    /\ \A k \in 1..Len(aIndex.data) : ~InBounds(aIndex.data[k], aValues.shape[1])
    /\ result.shape = <<1, aValues.shape[2]>>

\* Element (r, c) of a 2-D array held row-major (r, c 0-based).
At2(a, r, c) == At(a.data, r * a.shape[2] + c)

\* C9: 2-D gather.  For a 2-D source of shape (n, c) and a 1-D index I, output
\* row r is source row I[r] when 0 <= I[r] < n and all defaults otherwise: no
\* out-of-range row selects elements of another row and no in-range row
\* yields a default.
C9_Gather2D ==
    (GatherReturned /\ Len(aValues.shape) = 2 /\ Len(aIndex.shape) = 1) =>
        \A r \in 0..(aIndex.shape[1] - 1), c \in 0..(aValues.shape[2] - 1) :
            At2(result, r, c) =
                IF InBounds(At(aIndex.data, r), aValues.shape[1])
                THEN At2(aValues, At(aIndex.data, r), c)
                ELSE DefaultValue(aValues.dtype)

\* The failure the argument checks of mbget call for when both arguments are
\* arrays (or lists), the listed conditions taken in the order listed.
GatherFailure ==
    IF aValues.dtype.kind = "O" THEN "TypeError"
    ELSE IF ~IsInteger(aIndex.dtype) THEN "TypeError"
    ELSE IF Len(aValues.shape) > 2 THEN "ValueError"
    ELSE "none"

NormReturned == op = "normalize_keys" /\ pc = "done" /\ raised = "none"

ColumnCount(key) ==
    IF key.kind = "array" THEN 1
    ELSE IF key.kind = "list" /\ key.scalars # <<>> THEN 1
    ELSE Len(key.cols)

\* The values of key column p of an argument, and what is invalid among them.
ColumnData(key, p) ==
    IF key.kind = "list" /\ key.scalars # <<>> THEN key.scalars ELSE key.cols[p].data

ColumnInvalid(key, p) ==
    IF key.kind = "list" /\ key.scalars # <<>> THEN NaN ELSE Sentinel(key.cols[p].dtype)

\* Returned column a holds the values of key column p of the argument, an
\* invalid value as the invalid of a's dtype.
HoldsColumn(a, key, p) ==
    /\ Len(a.data) = Len(ColumnData(key, p))
    /\ \A k \in 1..Len(a.data) :
          \/ a.data[k] = ColumnData(key, p)[k]
          \/ /\ ColumnData(key, p)[k] = ColumnInvalid(key, p)
             /\ a.data[k] = Sentinel(a.dtype)

\* C12: canonicalisation.  A single array is one column; a list whose first
\* element is a scalar is one column holding all its elements; a list of
\* arrays is one column per element, in order; a dict-like is its value
\* columns, in order.
C12_Canonical ==
    NormReturned =>
        /\ Len(arrays.arrays1) = Min(ColumnCount(key1), ColumnCount(key2))
        /\ Len(arrays.arrays2) = Min(ColumnCount(key1), ColumnCount(key2))
        /\ \A p \in 1..Min(ColumnCount(key1), ColumnCount(key2)) :
              /\ HoldsColumn(arrays.arrays1[p], key1, p)
              /\ HoldsColumn(arrays.arrays2[p], key2, p)

\* A list of two scalars against a list of two arrays: one column comes back,
\* holding both scalars.
C12_Witness ==
    /\ NormReturned
    /\ key1.scalars = <<1, 2>>
    /\ key2.kind = "list"
    /\ Len(key2.cols) = 2
    /\ Len(arrays.arrays1) = 1
    /\ arrays.arrays1[1].data = <<1, 2>>

\* An empty list or tuple, whose first element check_key cannot read.
EmptyList(key) == key.kind = "list" /\ key.cols = <<>> /\ key.scalars = <<>>

\* What C17 says of a call on keys of different column counts.
TruncatedSilently ==
    /\ raised = "none"
    /\ Len(arrays.arrays1) = Min(ColumnCount(key1), ColumnCount(key2))
    /\ Len(arrays.arrays2) = Min(ColumnCount(key1), ColumnCount(key2))
    /\ \A p \in 1..Min(ColumnCount(key1), ColumnCount(key2)) :
          /\ HoldsColumn(arrays.arrays1[p], key1, p)
          /\ HoldsColumn(arrays.arrays2[p], key2, p)
          /\ arrays.arrays1[p].dtype = arrays.arrays2[p].dtype

\* C17 as stated: whenever key1 and key2 have different numbers of columns,
\* normalize_keys raises nothing and returns the reconciled leading columns,
\* as many as the shorter key has.
C17_Original ==
    (/\ op = "normalize_keys"
     /\ pc = "done"
     /\ ColumnCount(key1) # ColumnCount(key2)) => TruncatedSilently

\* C17, amended: when key1 and key2 have different numbers of columns and
\* neither is an empty list or tuple, normalize_keys raises nothing and
\* returns the reconciled leading columns, as many as the shorter key has.
C17_Truncates ==
    (/\ op = "normalize_keys"
     /\ pc = "done"
     /\ ColumnCount(key1) # ColumnCount(key2)
     /\ ~EmptyList(key1)
     /\ ~EmptyList(key2)) => TruncatedSilently

\* A key of two columns against a single array: one column pair comes back.
C17_Witness ==
    /\ NormReturned
    /\ key1.kind = "list"
    /\ Len(key1.cols) = 2
    /\ key2.kind = "array"
    /\ Len(arrays.arrays1) = 1
    /\ Len(arrays.arrays2) = 1

\* A sequence in reverse order; a time array in reverse order with the
\* direction of time turned round, so that it is non-decreasing again.
Reverse(s) == [p \in 1..Len(s) |-> s[Len(s) + 1 - p]]

ReverseTimes(t) == NdArray([p \in 1..Len(t.data) |-> MaxTime - t.data[Len(t.data) + 1 - p]])

ReverseKey(key) ==
    [key EXCEPT !.cols = [c \in 1..Len(key.cols) |->
                            [key.cols[c] EXCEPT !.data = Reverse(key.cols[c].data)]]]

OtherDirection == IF direction = "backward" THEN "forward" ELSE "backward"

\* The run on the reversed sequences in the other direction.
ReversedRun ==
    alignmk_returns(ReverseKey(key1), ReverseKey(key2), ReverseTimes(time1),
                    ReverseTimes(time2), OtherDirection, allow_exact_matches,
                    safeCast)

\* C13: direction symmetry.  Left row r is paired with right row q exactly
\* when, in the run on the reversed sequences in the other direction, the
\* reversed left row is paired with the reversed right row; an unmatched row
\* is unmatched in both runs.
C13_DirectionSymmetry ==
    AlignReturned =>
        \A r \in LeftRows :
            LET rr == At(ReversedRun, Len(time1.data) - 1 - r)
            IN  IF Entry(r) = INVALID_INT32
                THEN rr = INVALID_INT32
                ELSE rr = Len(time2.data) - 1 - Entry(r)

\* A run with a matched and an unmatched left row, the match chosen among
\* two right rows of its key.
C13_Witness ==
    /\ AlignReturned
    /\ \E r \in LeftRows : Entry(r) = INVALID_INT32
    /\ \E r \in LeftRows, q \in RightRows :
          /\ Entry(r) \in RightRows
          /\ q # Entry(r)
          /\ SameKey(r, q)

\* C15: ties.  Of several right rows of the returned row's key and time, the
\* returned row is the one scanned last: the highest row number going
\* backward, the lowest going forward.
C15_LastSeenWins ==
    AlignReturned =>
        \A r \in LeftRows, q \in RightRows :
            (/\ Entry(r) \in RightRows
             /\ SameKey(r, q)
             /\ At(time2.data, q) = At(time2.data, Entry(r))) =>
                /\ direction = "backward" => q <= Entry(r)
                /\ direction = "forward" => q >= Entry(r)

\* A forward match on the first of two right rows of one key and one time.
C15_Witness ==
    /\ AlignReturned
    /\ direction = "forward"
    /\ \E r \in LeftRows, q \in RightRows :
          /\ Entry(r) \in RightRows
          /\ q > Entry(r)
          /\ SameKey(r, q)
          /\ At(time2.data, q) = At(time2.data, Entry(r))

\* The next position of a cursor in the scan order of the direction asked
\* for: ascending going backward, descending going forward.
NextInScan(c) == IF direction = "forward" THEN c - 1 ELSE c + 1

OffEnd(c, n) == IF direction = "forward" THEN c < 0 ELSE c >= n

\* The left row at ci is behind the right row at cj in scan order: its time
\* comes first, or the times are equal and an equal time does not qualify.
LeftBehind(ci, cj) ==
    LET a == At(time1.data, ci)
        b == At(time2.data, cj)
    IN  IF direction = "forward"
        THEN a > b \/ (~allow_exact_matches /\ a = b)
        ELSE a < b \/ (~allow_exact_matches /\ a = b)

\* One step of the scan, as C16 describes it.
SinglePassStep ==
    (pc = "merge" /\ pc' = "merge") =>
        /\ (i' # i) # (j' # j)
        /\ i' # i =>
              /\ i' = NextInScan(i)
              /\ OffEnd(j, Len(time2.data)) \/ LeftBehind(i, j)
              /\ out[i + 1] = Unwritten
              /\ out' = [out EXCEPT ![i + 1] = Lookup(lastSeen, KeyOf(key1, i))]
              /\ lastSeen' = lastSeen
        /\ j' # j =>
              /\ j' = NextInScan(j)
              /\ ~OffEnd(i, Len(time1.data))
              /\ ~LeftBehind(i, j)
              /\ out' = out
        /\ steps' = steps + 1

\* The scan is within its bound and not stuck, and at its end every left row
\* has its entry.
SinglePassState ==
    /\ steps <= Len(time1.data) + Len(time2.data)
    /\ pc = "merge" => ENABLED (MergeLookup \/ MergeInsert \/ MergeReturn)
    /\ AlignReturned => \A r \in LeftRows : Entry(r) # Unwritten

\* C16: the merge is a single pass.  Every step moves exactly one cursor one
\* row on in scan order, the left one when its row is behind; a left row gets
\* its entry once, from the map as it is when the cursor is on the row; and
\* the scan ends after at most len(time1) + len(time2) steps.
C16_SinglePass == [][SinglePassStep]_vars /\ []SinglePassState

\* A scan that has ended after len(time1) + len(time2) steps over several
\* rows on both sides.
C16_Witness ==
    /\ AlignReturned
    /\ Len(time1.data) >= 2
    /\ Len(time2.data) >= 2
    /\ steps = Len(time1.data) + Len(time2.data)

\* C14: no call writes into its arguments.  Over every step of normalize_keys,
\* alignmk and mbget (1-D and 2-D), returning or raising, the caller's keys
\* (containers and columns), time arrays, source array and index array keep
\* their values, dtype and shape.
C14_InputsKept ==
    [][/\ key1' = key1
       /\ key2' = key2
       /\ time1' = time1
       /\ time2' = time2
       /\ aValues' = aValues
       /\ aIndex' = aIndex]_vars

\* A 2-D gather over two columns has returned and the caller's index array
\* still holds row numbers that the expansion of lines 498-499 scales and
\* shifts.
C14_Witness ==
    /\ GatherReturned
    /\ Len(aValues.shape) = 2
    /\ aValues.shape[2] = 2
    /\ aIndex.container = "ndarray"
    /\ aIndex.shape = <<2>>
    /\ aIndex.data[1] = 1
    /\ expanded_idx_objects(aValues, aIndex).expanded_idx = <<2, 3>> \o SubSeq(expanded_idx_objects(aValues, aIndex).expanded_idx, 3, 4)

\* C18: the flat index of the 2-D gather does not wrap.  For a 2-D source of
\* shape (n, c) and a 1-D index of any integer width, every row index with
\* 0 <= I[r] < n gathers source row I[r]: never a default, never another row.
C18_FlatIndexNoWrap ==
    (GatherReturned /\ Len(aValues.shape) = 2 /\ Len(aIndex.shape) = 1) =>
        \A r \in 0..(aIndex.shape[1] - 1), c \in 0..(aValues.shape[2] - 1) :
            InBounds(At(aIndex.data, r), aValues.shape[1]) =>
                At2(result, r, c) = At2(aValues, At(aIndex.data, r), c)

\* The valid elements of the array given to quantile or describe_helper, in
\* the order of the sort.
ValidValues ==
    SelectSeq(sort(arr), LAMBDA v : v # Sentinel(arr.dtype))

\* C19: the subset the statistics are taken from.  After quantile or
\* describe_helper on an array with at least one valid element, the subset
\* valid holds exactly the valid elements of the array, integer or float, and
\* describe_helper returns with the largest valid element as Max.
C19_ValidSubset ==
    (/\ op \in {"quantile", "describe_helper"}
     /\ pc = "done"
     /\ ValidValues # <<>>) =>
        /\ valid = ValidValues
        /\ op = "describe_helper" =>
              /\ raised = "none"
              /\ retvals[Len(retvals) - 1] = Frac(ValidValues[Len(ValidValues)], 1)

====
